---- MODULE Spec2Model ----
(***************************************************************************)
(* The express-cache-tutorial server: GET /crypto is served by             *)
(* cryptoCacheMiddleware (a node-cache lookup under the key "crypto-list") *)
(* followed, on a miss, by cryptoController, which calls cryptoApi(25),    *)
(* stores the result in the cache and sends it.  GET / is the home route.  *)
(*                                                                         *)
(* Time is counted in seconds.  node-cache stamps an entry with            *)
(* t = Date.now() + ttl * 1000 and compares t < Date.now(); the factor     *)
(* 1000 is on both sides and is dropped here.                              *)
(***************************************************************************)
EXTENDS Integers, Sequences, FiniteSets, TLC

\* ------------------------------------------------------------------ bounds
\* Requests the server receives, numbered in arrival order.
NumReqs == 3
\* Distinct contents the upstream can answer with.
MaxVersion == 2
\* Records the upstream may return beyond the controller's amount.
MaxExtra == 1
\* The clock stops advancing here.
MaxTime == 451

\* ------------------------------------------------------- program constants
\* new Cache({ stdTTL: 60 * 5 })
stdTTL == 60 * 5
\* cryptoApi(25)
Amount == 25

Reqs == 1..NumReqs

\* -------------------------------------------------------------- JS values
Undefined == [kind |-> "undefined", items |-> << >>]
Arr(s) == [kind |-> "array", items |-> s]
\* A JSON body that is not an array: it has no slice method.
Obj == [kind |-> "object", items |-> << >>]

Min(a, b) == IF a < b THEN a ELSE b
Max(a, b) == IF a > b THEN a ELSE b

\* Array.prototype.slice(begin, end) on a sequence (indices are 0-based in
\* JS: the result holds the elements k .. final-1, here k+1 .. final).
Slice(s, begin, end) ==
  LET len == Len(s)
      k == IF begin < 0 THEN Max(len + begin, 0) ELSE Min(begin, len)
      final == IF end < 0 THEN Max(len + end, 0) ELSE Min(end, len)
  IN SubSeq(s, k + 1, final)

\* ------------------------------------------------------- promise outcomes
Resolved(v) == [ok |-> TRUE, val |-> v]
Rejected == [ok |-> FALSE, val |-> Undefined]

\* The body the upstream answers with: n records of content version v.
Ticker(v, n) == [i \in 1..n |-> 100 * v + i]
UpstreamLens == {0, Amount + MaxExtra}
\* What axios.get(url) can settle to: a 2xx answer carrying an array or some
\* other JSON value, or a rejection (network error, non-2xx status).
AxiosOutcomes ==
  {Resolved(Arr(Ticker(v, n))) : v \in 1..MaxVersion, n \in UpstreamLens}
    \cup {Resolved(Obj), Rejected}

\* FetchApi: return res.data, or log and rethrow.
FetchApi(axios) == IF axios.ok THEN Resolved(axios.val) ELSE Rejected

\* cryptoApi with the end of the slice taken as inclusive.
cryptoApi_InclusiveEnd(amount, axios) ==
  LET result == FetchApi(axios)
  IN IF ~result.ok THEN Rejected
     ELSE IF result.val.kind # "array" THEN Rejected
     ELSE Resolved(Arr(Slice(result.val.items, 0, amount + 1)))

\* cryptoApi with a catch that returns an empty list instead of rethrowing.
cryptoApi_SwallowsError(amount, axios) ==
  LET result == FetchApi(axios)
  IN IF ~result.ok THEN Resolved(Arr(<< >>))
     ELSE IF result.val.kind # "array" THEN Resolved(Arr(<< >>))
     ELSE Resolved(Arr(Slice(result.val.items, 0, amount)))

\* cryptoApi: result.slice(0, amount); any throw inside the try (the
\* rejected FetchApi, or slice missing on a non-array) is logged and rethrown.
cryptoApi(amount, axios) ==
  LET result == FetchApi(axios)
  IN IF ~result.ok THEN Rejected
     ELSE IF result.val.kind # "array" THEN Rejected
     ELSE Resolved(Arr(Slice(result.val.items, 0, amount)))

\* ------------------------------------------------------------- node-cache
\* The store's slot for the key "crypto-list": {t, v} or nothing.
NoEntry == [present |-> FALSE, v |-> Undefined, t |-> 0]

\* _check with its comparison turned around.
Expired_Reversed(c, n) == c.t # 0 /\ c.t > n

\* _check letting an entry live for twice its TTL.
Expired_DoubleTTL(c, n) == c.t # 0 /\ c.t + stdTTL < n

\* _check: an entry is invalid when its t is not 0 and lies before now.
Expired(c, n) == c.t # 0 /\ c.t < n

\* has without the _check of the entry's t.
has_IgnoresExpiry(c, n) == c.present

has(c, n) == c.present /\ ~Expired(c, n)

get(c, n) == IF c.present /\ ~Expired(c, n) THEN c.v ELSE Undefined

\* A read that also restarts the TTL of the entry it finds (sliding expiry).
Checked_Touch(c, n) ==
  IF c.present /\ Expired(c, n) THEN NoEntry
  ELSE IF c.present THEN [c EXCEPT !.t = n + stdTTL]
  ELSE c

\* has and get delete an entry they find expired (deleteOnExpire).
Checked(c, n) == IF c.present /\ Expired(c, n) THEN NoEntry ELSE c

set(value, n) == [present |-> TRUE, v |-> value, t |-> n + stdTTL]

\* ---------------------------------------------------------------- express
NoBody == [type |-> "none", data |-> << >>, text |-> ""]
\* res.send(x): an array goes out as JSON, undefined as an empty body.
\* SendText is res.send of a string.
Send(x) ==
  IF x.kind = "undefined" THEN [type |-> "empty", data |-> << >>, text |-> ""]
  ELSE [type |-> "json", data |-> x.items, text |-> ""]
SendText(s) == [type |-> "html", data |-> << >>, text |-> s]

NoResp == [sent |-> FALSE, status |-> 0, body |-> NoBody]
Response(status, body) == [sent |-> TRUE, status |-> status, body |-> body]

VARIABLES
  now,         \* Date.now()
  cache,       \* cryptoCache's slot for "crypto-list"
  pc,          \* where each request is
  route,       \* the path each request asked for
  statusCode,  \* res.statusCode of each request
  resp,        \* what each client has received
  fetches,     \* axios.get calls issued for each request
  unhandled,   \* requests whose handler promise rejected with nobody to catch
  hist,        \* per request: what its cache calls saw and did
  lastSet,     \* the most recent cryptoCache.set
  probe        \* a direct call of cryptoApi: its inputs and what it settled to

vars == <<now, cache, pc, route, statusCode, resp, fetches, unhandled, hist, lastSet, probe>>

\* What a request's cache calls saw and did: whether has was true (hit), whether
\* no other request was in flight when it arrived (solo), which request had
\* set last before its has check (prevSetBy) and whether that set was less
\* than stdTTL (within) or more than stdTTL (stale) before the check, what get
\* returned (got), what axios.get settled to (axios), how often it called set
\* (sets), what entry its set found (found) and which requests were awaiting
\* their fetch when it arrived (inflight).
NoHist == [hit |-> FALSE, solo |-> FALSE, prevSetBy |-> 0, within |-> FALSE,
           stale |-> FALSE, got |-> Undefined, axios |-> Rejected, sets |-> 0,
           found |-> "none", inflight |-> {}]
\* Time since the most recent set, when there was one.
SinceSet == now - lastSet.at
NoSet == [by |-> 0, at |-> -1, v |-> Undefined]
NoProbe == [called |-> FALSE, amount |-> 0, axios |-> Rejected, out |-> Rejected]

Init ==
  /\ now = 0
  /\ cache = NoEntry
  /\ pc = [r \in Reqs |-> "new"]
  /\ route = [r \in Reqs |-> ""]
  /\ statusCode = [r \in Reqs |-> 200]
  /\ resp = [r \in Reqs |-> NoResp]
  /\ fetches = [r \in Reqs |-> 0]
  /\ unhandled = {}
  /\ hist = [r \in Reqs |-> NoHist]
  /\ lastSet = NoSet
  /\ probe = NoProbe

\* A request is over once it was answered or its handler gave up.
Over(r) == pc[r] \in {"done", "rejected"}
\* The JS thread is inside cryptoCacheMiddleware, between has and get.
InSync == \E r \in Reqs : pc[r] = "get"
\* The event loop takes the next request: requests arrive in order.
Arrives(r) ==
  /\ pc[r] = "new"
  /\ ~InSync
  /\ IF r = 1 THEN TRUE ELSE pc[r - 1] # "new"
Alone(r) == \A q \in Reqs \ {r} : pc[q] = "new" \/ Over(q)

\* The clock advances, also while a handler runs (has and get each read
\* Date.now() for themselves).  The two steps put the clock within an entry's
\* TTL, exactly at its expiry and past it.
Tick ==
  /\ \E d \in {stdTTL \div 2, stdTTL + 1} :
       /\ now + d <= MaxTime
       /\ now' = now + d
  /\ UNCHANGED <<cache, pc, route, statusCode, resp, fetches, unhandled, hist, lastSet, probe>>

\* The home route registered behind cryptoCacheMiddleware.
homeRoute_ThroughCache(r) ==
  /\ Arrives(r)
  /\ route' = [route EXCEPT ![r] = "/"]
  /\ resp' = [resp EXCEPT ![r] =
                IF has(cache, now)
                  THEN Response(statusCode[r], Send(get(cache, now)))
                  ELSE Response(statusCode[r], SendText("Cache Project Home Page"))]
  /\ cache' = Checked(cache, now)
  /\ statusCode' = [statusCode EXCEPT ![r] = 200]
  /\ pc' = [pc EXCEPT ![r] = "done"]
  /\ UNCHANGED <<now, fetches, unhandled, hist, lastSet, probe>>

\* router.get("/"): res.send("Cache Project Home Page"); res.status(200).
homeRoute(r) ==
  /\ Arrives(r)
  /\ route' = [route EXCEPT ![r] = "/"]
  /\ resp' = [resp EXCEPT ![r] = Response(statusCode[r], SendText("Cache Project Home Page"))]
  /\ statusCode' = [statusCode EXCEPT ![r] = 200]
  /\ pc' = [pc EXCEPT ![r] = "done"]
  /\ UNCHANGED <<now, cache, fetches, unhandled, hist, lastSet, probe>>

\* cryptoCacheMiddleware reaching next() on a hit as well.
cryptoCacheMiddleware_FallThrough(r) ==
  /\ Arrives(r)
  /\ route' = [route EXCEPT ![r] = "/crypto"]
  /\ cache' = Checked(cache, now)
  /\ hist' = [hist EXCEPT ![r].hit = has(cache, now),
                          ![r].solo = Alone(r),
                          ![r].prevSetBy = lastSet.by,
                          ![r].within = lastSet.by # 0 /\ SinceSet < stdTTL,
                          ![r].stale = lastSet.by # 0 /\ SinceSet > stdTTL,
                          ![r].inflight = {q \in Reqs : pc[q] = "await"}]
  /\ pc' = [pc EXCEPT ![r] = "await"]
  /\ fetches' = [fetches EXCEPT ![r] = @ + 1]
  /\ UNCHANGED <<now, statusCode, resp, unhandled, lastSet, probe>>

\* cryptoCacheMiddleware up to the has check.  On a miss next() runs
\* cryptoController down to its first await: cryptoApi(25) calls FetchApi,
\* which issues axios.get.
cryptoCacheMiddleware(r) ==
  /\ Arrives(r)
  /\ route' = [route EXCEPT ![r] = "/crypto"]
  /\ cache' = Checked(cache, now)
  /\ hist' = [hist EXCEPT ![r].hit = has(cache, now),
                          ![r].solo = Alone(r),
                          ![r].prevSetBy = lastSet.by,
                          ![r].within = lastSet.by # 0 /\ SinceSet < stdTTL,
                          ![r].stale = lastSet.by # 0 /\ SinceSet > stdTTL,
                          ![r].inflight = {q \in Reqs : pc[q] = "await"}]
  /\ IF has(cache, now)
       THEN /\ pc' = [pc EXCEPT ![r] = "get"]
            /\ UNCHANGED fetches
       ELSE /\ pc' = [pc EXCEPT ![r] = "await"]
            /\ fetches' = [fetches EXCEPT ![r] = @ + 1]
  /\ UNCHANGED <<now, statusCode, resp, unhandled, lastSet, probe>>

\* return res.send(cryptoCache.get("crypto-list")).status(200)
middlewareGet(r) ==
  /\ pc[r] = "get"
  /\ cache' = Checked(cache, now)
  /\ hist' = [hist EXCEPT ![r].got = get(cache, now)]
  /\ resp' = [resp EXCEPT ![r] = Response(statusCode[r], Send(get(cache, now)))]
  /\ statusCode' = [statusCode EXCEPT ![r] = 200]
  /\ pc' = [pc EXCEPT ![r] = "done"]
  /\ UNCHANGED <<now, route, fetches, unhandled, lastSet, probe>>

\* cryptoController storing its result only when the cache has no entry.
cryptoController_SetIfAbsent(r) ==
  /\ pc[r] = "await"
  /\ ~InSync
  /\ \E axios \in AxiosOutcomes :
       LET data == cryptoApi(Amount, axios)
       IN /\ hist' = [hist EXCEPT ![r].axios = axios,
                        ![r].sets = IF data.ok THEN @ + 1 ELSE @,
                        ![r].found = IF ~data.ok THEN @
                                     ELSE IF has(cache, now) THEN "live"
                                     ELSE IF cache.present THEN "expired"
                                     ELSE "absent"]
          /\ IF data.ok
               THEN /\ cache' = IF has(cache, now) THEN cache ELSE set(data.val, now)
                    /\ lastSet' = IF has(cache, now) THEN lastSet
                                  ELSE [by |-> r, at |-> now, v |-> data.val]
                    /\ resp' = [resp EXCEPT ![r] = Response(statusCode[r], Send(data.val))]
                    /\ statusCode' = [statusCode EXCEPT ![r] = 200]
                    /\ pc' = [pc EXCEPT ![r] = "done"]
                    /\ UNCHANGED unhandled
               ELSE /\ statusCode' = [statusCode EXCEPT ![r] = 500]
                    /\ pc' = [pc EXCEPT ![r] = "rejected"]
                    /\ unhandled' = unhandled \cup {r}
                    /\ UNCHANGED <<cache, lastSet, resp>>
  /\ UNCHANGED <<now, route, fetches, probe>>

\* cryptoController calling cryptoApi again when it fails.
cryptoController_Retry(r) ==
  /\ pc[r] = "await"
  /\ ~InSync
  /\ \E axios \in AxiosOutcomes :
       LET data == cryptoApi(Amount, axios)
       IN /\ hist' = [hist EXCEPT ![r].axios = axios,
                        ![r].sets = IF data.ok THEN @ + 1 ELSE @,
                        ![r].found = IF ~data.ok THEN @
                                     ELSE IF has(cache, now) THEN "live"
                                     ELSE IF cache.present THEN "expired"
                                     ELSE "absent"]
          /\ IF data.ok
               THEN /\ cache' = set(data.val, now)
                    /\ lastSet' = [by |-> r, at |-> now, v |-> data.val]
                    /\ resp' = [resp EXCEPT ![r] = Response(statusCode[r], Send(data.val))]
                    /\ statusCode' = [statusCode EXCEPT ![r] = 200]
                    /\ pc' = [pc EXCEPT ![r] = "done"]
                    /\ UNCHANGED <<unhandled, fetches>>
               ELSE /\ fetches' = [fetches EXCEPT ![r] = @ + 1]
                    /\ UNCHANGED <<cache, lastSet, resp, statusCode, pc, unhandled>>
  /\ UNCHANGED <<now, route, probe>>

\* cryptoController once cryptoApi(25) has settled: set, send and status(200),
\* or status(500), log and rethrow (nothing is sent, and Express 4 does not
\* catch the rejection of an async handler).
cryptoController(r) ==
  /\ pc[r] = "await"
  /\ ~InSync
  /\ \E axios \in AxiosOutcomes :
       LET data == cryptoApi(Amount, axios)
       IN /\ hist' = [hist EXCEPT ![r].axios = axios,
                        ![r].sets = IF data.ok THEN @ + 1 ELSE @,
                        ![r].found = IF ~data.ok THEN @
                                     ELSE IF has(cache, now) THEN "live"
                                     ELSE IF cache.present THEN "expired"
                                     ELSE "absent"]
          /\ IF data.ok
               THEN /\ cache' = set(data.val, now)
                    /\ lastSet' = [by |-> r, at |-> now, v |-> data.val]
                    /\ resp' = [resp EXCEPT ![r] = Response(statusCode[r], Send(data.val))]
                    /\ statusCode' = [statusCode EXCEPT ![r] = 200]
                    /\ pc' = [pc EXCEPT ![r] = "done"]
                    /\ UNCHANGED unhandled
               ELSE /\ statusCode' = [statusCode EXCEPT ![r] = 500]
                    /\ pc' = [pc EXCEPT ![r] = "rejected"]
                    /\ unhandled' = unhandled \cup {r}
                    /\ UNCHANGED <<cache, lastSet, resp>>
  /\ UNCHANGED <<now, route, fetches, probe>>

\* A periodic check that deletes the entry whether or not it has expired.
checkData_DeletesLive ==
  /\ ~InSync
  /\ cache.present
  /\ cache' = NoEntry
  /\ UNCHANGED <<now, pc, route, statusCode, resp, fetches, unhandled, hist, lastSet, probe>>

\* node-cache's periodic _checkData (checkperiod) deletes expired entries.
checkData ==
  /\ ~InSync
  /\ cache.present /\ Expired(cache, now)
  /\ cache' = NoEntry
  /\ UNCHANGED <<now, pc, route, statusCode, resp, fetches, unhandled, hist, lastSet, probe>>

Next ==
  \/ Tick
  \/ checkData
  \/ \E r \in Reqs : homeRoute(r)
  \/ \E r \in Reqs : cryptoCacheMiddleware(r)
  \/ \E r \in Reqs : middlewareGet(r)
  \/ \E r \in Reqs : cryptoController(r)

Spec == Init /\ [][Next]_vars

\* ------------------------------------------------- cryptoApi called directly
\* Amounts and upstream lengths a direct call is tried with.
MaxProbeAmount == 3
MaxProbeLen == 4
ProbeAmounts == 0..MaxProbeAmount \cup {Amount}
ProbeOutcomes ==
  {Resolved(Arr(Ticker(v, n))) :
     v \in 1..MaxVersion, n \in 0..MaxProbeLen \cup {Amount, Amount + MaxExtra}}
    \cup {Resolved(Obj), Rejected}

InitApi ==
  /\ now = 0
  /\ cache = NoEntry
  /\ pc = [r \in Reqs |-> "new"]
  /\ route = [r \in Reqs |-> ""]
  /\ statusCode = [r \in Reqs |-> 200]
  /\ resp = [r \in Reqs |-> NoResp]
  /\ fetches = [r \in Reqs |-> 0]
  /\ unhandled = {}
  /\ hist = [r \in Reqs |-> NoHist]
  /\ lastSet = NoSet
  /\ \E n \in ProbeAmounts, a \in ProbeOutcomes :
       probe = [called |-> FALSE, amount |-> n, axios |-> a, out |-> Rejected]

\* await cryptoApi(amount) with the upstream settling to probe.axios.
ApiCall ==
  /\ ~probe.called
  /\ probe' = [probe EXCEPT !.called = TRUE, !.out = cryptoApi(probe.amount, probe.axios)]
  /\ UNCHANGED <<now, cache, pc, route, statusCode, resp, fetches, unhandled, hist, lastSet>>

NextApi == ApiCall

SpecApi == InitApi /\ [][NextApi]_vars

\* ------------------------------------------------------------------ claims
\* The first min(n, |L|) records of L, in order.
Prefix(L, n) == [i \in 1..Min(n, Len(L)) |-> L[i]]

\* C1: a GET /crypto request whose has("crypto-list") check was true is
\* answered with the value get("crypto-list") returned and status 200; next()
\* is not called, so the controller does not run (no set, no rejection) and
\* the request issues no upstream fetch.
C1_HitPath ==
  \A r \in Reqs :
    hist[r].hit =>
      /\ pc[r] \in {"get", "done"}
      /\ fetches[r] = 0
      /\ hist[r].sets = 0
      /\ r \notin unhandled
      /\ pc[r] = "done" => resp[r] = Response(200, Send(hist[r].got))

C1_Witness ==
  \E r \in Reqs :
    /\ hist[r].hit
    /\ pc[r] = "done"
    /\ resp[r].body.type = "json"
    /\ Len(resp[r].body.data) = Amount

\* C2: of two consecutive, non-overlapping GET /crypto requests, the first a
\* miss whose fetch succeeds and the second starting (its has check) less
\* than stdTTL after the first one's set, with no other set in between, the
\* second issues no upstream fetch and is answered with the same body as the
\* first.
C2_IdempotentWithinTTL ==
  \A r \in Reqs : \A q \in Reqs :
    ( /\ r < q
      /\ route[r] = "/crypto" /\ route[q] = "/crypto"
      /\ ~hist[r].hit /\ pc[r] = "done"
      /\ hist[q].solo
      /\ hist[q].prevSetBy = r
      /\ hist[q].within ) =>
        /\ fetches[q] = 0
        /\ Over(q) => resp[q].body = resp[r].body

\* The request's has check ran after the TTL of the entry set before it had
\* elapsed.
Stale(r) == hist[r].stale
\* The upstream call of a request did not yield an array: axios.get rejected,
\* or the body has no slice.
ApiFailed(a) == ~a.ok \/ a.val.kind # "array"

\* C3: a GET /crypto request whose has check runs after the entry's TTL has
\* elapsed misses and issues exactly one upstream fetch; when the fetch
\* succeeds with the array L the request stores the first min(25, |L|) records
\* of L with expiry now + stdTTL, over whatever the cache held, and is
\* answered with those records and status 200.
C3_AfterExpiry ==
  /\ [](\A r \in Reqs : Stale(r) => ~hist[r].hit /\ fetches[r] = 1)
  /\ [][\A r \in Reqs :
          (Stale(r) /\ pc[r] = "await" /\ pc'[r] # "await"
             /\ ~ApiFailed(hist'[r].axios)) =>
            LET fresh == Arr(Prefix(hist'[r].axios.val.items, Amount))
            IN /\ pc'[r] = "done"
               /\ fetches'[r] = 1
               /\ cache' = [present |-> TRUE, v |-> fresh, t |-> now + stdTTL]
               /\ resp'[r] = Response(200, Send(fresh))]_vars

C3_Witness ==
  \E r \in Reqs : \E q \in Reqs :
    /\ q < r /\ hist[q].sets = 1 /\ pc[q] = "done"
    /\ Stale(r) /\ hist[r].solo /\ pc[r] = "done"
    /\ resp[r].body # resp[q].body
    /\ Len(resp[r].body.data) = Amount
    /\ lastSet.by = r
    /\ cache.present /\ Send(cache.v) = resp[r].body
    /\ cache.t = lastSet.at + stdTTL

\* C4: a GET /crypto request whose upstream fetch fails performs no set and
\* leaves the cache entry and its expiry as they were; after a miss followed
\* by that failure, with no other request, has("crypto-list") is false.
C4_FailedFetchKeepsCache ==
  /\ [][\A r \in Reqs :
          (pc[r] = "await" /\ pc'[r] # "await" /\ ApiFailed(hist'[r].axios)) =>
            /\ cache' = cache
            /\ lastSet' = lastSet
            /\ hist'[r].sets = 0]_vars
  /\ [](\A r \in Reqs :
          ( /\ Over(r) /\ route[r] = "/crypto" /\ ~hist[r].hit
            /\ ApiFailed(hist[r].axios)
            /\ hist[r].solo
            /\ \A q \in Reqs : q > r => route[q] # "/crypto" ) =>
              ~has(cache, now))

C4_Witness ==
  \E r \in Reqs :
    /\ pc[r] = "rejected" /\ ~hist[r].axios.ok
    /\ hist[r].solo /\ Stale(r)
    /\ hist[r].sets = 0 /\ fetches[r] = 1
    /\ ~has(cache, now)

\* C5: a GET /crypto request whose upstream fetch failed has been answered
\* with status 500.
C5_FailedFetchAnswered500 ==
  \A r \in Reqs :
    (Over(r) /\ route[r] = "/crypto" /\ ~hist[r].hit /\ ~hist[r].axios.ok) =>
      resp[r].sent /\ resp[r].status = 500

\* C7: has("crypto-list") is true iff an entry was set and no more than
\* stdTTL has passed since the most recent set; an entry past its TTL counts
\* as absent at read time whether or not it was deleted, with or without a
\* run of the periodic check.
C7_LazyExpiry ==
  has(cache, now) <=> (lastSet.by # 0 /\ SinceSet <= stdTTL)

C7_Witness ==
  /\ cache.present
  /\ SinceSet > stdTTL
  /\ ~has(cache, now)
  /\ get(cache, now) = Undefined

\* C8: the key "crypto-list" has one entry at most; a set after a successful
\* fetch replaces whatever entry there was, expired or not, with the fetched
\* truncated value and the expiry (time of the set) + stdTTL, so a present
\* entry always carries the value and expiry of the most recent set.
C8_SingleEntryOverwrite ==
  /\ [](cache.present => cache.v = lastSet.v /\ cache.t = lastSet.at + stdTTL)
  /\ [][\A r \in Reqs :
          (pc[r] = "await" /\ pc'[r] = "done") =>
            /\ hist'[r].sets = 1
            /\ cache' = [present |-> TRUE,
                         v |-> Arr(Prefix(hist'[r].axios.val.items, Amount)),
                         t |-> now + stdTTL]
            /\ lastSet' = [by |-> r, at |-> now, v |-> cache'.v]]_vars

C8_Witness ==
  \E r \in Reqs : \E q \in Reqs :
    /\ r # q /\ hist[q].sets = 1 /\ hist[r].sets = 1
    /\ lastSet.by = r /\ hist[r].found = "live"
    /\ resp[q].body # resp[r].body
    /\ cache.present /\ Send(cache.v) = resp[r].body
    /\ cache.t = lastSet.at + stdTTL

\* C9: a GET /crypto request issues one upstream fetch on a miss, none on a
\* hit, and never a second one; when its fetch fails the error leaves the
\* controller (rethrown) with that single attempt made.
C9_NoRetry ==
  \A r \in Reqs :
    /\ fetches[r] <= 1
    /\ route[r] = "/crypto" => fetches[r] = (IF hist[r].hit THEN 0 ELSE 1)
    /\ (Over(r) /\ route[r] = "/crypto" /\ ~hist[r].hit /\ ApiFailed(hist[r].axios)) =>
         pc[r] = "rejected" /\ r \in unhandled /\ fetches[r] = 1

C9_Witness ==
  \E r \in Reqs : \E q \in Reqs :
    /\ pc[r] = "rejected" /\ ~hist[r].axios.ok /\ fetches[r] = 1
    /\ pc[q] = "done" /\ hist[q].hit /\ fetches[q] = 0

\* C10: a GET / request is answered with status 200 and the body "Cache
\* Project Home Page", issues no upstream fetch and leaves the cache entry
\* and its expiry unchanged, whatever the cache holds and whether or not
\* upstream fetches are failing.
C10_HomeIndependent ==
  /\ [](\A r \in Reqs :
          route[r] = "/" =>
            /\ pc[r] = "done"
            /\ resp[r] = Response(200, SendText("Cache Project Home Page"))
            /\ fetches[r] = 0
            /\ hist[r] = NoHist)
  /\ [][\A r \in Reqs :
          (route[r] = "" /\ route'[r] = "/") =>
            /\ cache' = cache
            /\ lastSet' = lastSet
            /\ fetches' = fetches]_vars

C10_Witness ==
  \E r \in Reqs : \E q \in Reqs : \E p \in Reqs :
    /\ route[r] = "/" /\ pc[r] = "done"
    /\ q < r /\ p < r
    /\ hist[q].sets = 1 /\ has(cache, now)
    /\ pc[p] = "rejected"

\* C6: for every amount N >= 0 and every upstream array L, cryptoApi(N)
\* resolves to the first min(N, |L|) records of L in upstream order: at most
\* N records, and exactly N when L has at least N.
C6_Truncation ==
  (probe.called /\ probe.axios.ok /\ probe.axios.val.kind = "array") =>
    LET L == probe.axios.val.items
        N == probe.amount
    IN /\ probe.out.ok
       /\ probe.out.val = Arr(Prefix(L, N))
       /\ Len(probe.out.val.items) <= N
       /\ Len(L) >= N => Len(probe.out.val.items) = N

C6_Witness ==
  /\ probe.called
  /\ probe.amount = Amount
  /\ probe.axios.ok
  /\ Len(probe.axios.val.items) = Amount + MaxExtra
  /\ probe.out.ok
  /\ Len(probe.out.val.items) = Amount

\* What cryptoController stores and sends for a request whose fetch succeeded.
Own(r) == Arr(Prefix(hist[r].axios.val.items, Amount))

\* C11: when two GET /crypto requests overlap and both miss before either
\* has called set, each issues its own upstream fetch; each that succeeds
\* calls set once with its own truncated result and is answered with it; the
\* set that runs later overwrites the earlier one whole, so a present entry
\* is the value and expiry of the last set, never a mixture.
C11_ConcurrentMisses ==
  /\ [](\A r \in Reqs : \A q \in Reqs :
          (r \in hist[q].inflight /\ ~hist[q].hit) =>
            /\ ~hist[r].hit
            /\ fetches[r] = 1 /\ fetches[q] = 1
            /\ \A x \in {r, q} :
                 pc[x] = "done" =>
                   hist[x].sets = 1 /\ resp[x] = Response(200, Send(Own(x)))
            /\ (pc[r] = "done" /\ pc[q] = "done" /\ cache.present) =>
                 /\ lastSet.by \in Reqs
                 /\ cache.v = Own(lastSet.by)
                 /\ cache.t = lastSet.at + stdTTL)
  /\ [][\A r \in Reqs : \A q \in Reqs : \A x \in {r, q} :
          (r \in hist[q].inflight /\ ~hist[q].hit
             /\ pc[x] = "await" /\ pc'[x] = "done") =>
            /\ lastSet'.by = x /\ lastSet'.at = now
            /\ cache' = [present |-> TRUE, v |-> Own(x)', t |-> now + stdTTL]]_vars

C11_Witness ==
  \E r \in Reqs : \E q \in Reqs :
    /\ r \in hist[q].inflight /\ ~hist[q].hit
    /\ pc[r] = "done" /\ pc[q] = "done"
    /\ hist[r].found = "live" /\ hist[q].found = "absent"
    /\ lastSet.by = r
    /\ resp[r].body # resp[q].body
    /\ cache.present /\ cache.v = Own(r) /\ Send(cache.v) = resp[r].body

\* C12: every get("crypto-list") follows a has("crypto-list") that was true
\* in the same request and returns a present, unexpired value, so no hit is
\* answered with an absent body, also when the clock advances between the
\* two calls.
C12_GuardedGet ==
  \A r \in Reqs :
    (hist[r].hit /\ pc[r] = "done") =>
      /\ hist[r].got # Undefined
      /\ resp[r].body.type = "json"

\* Some request's controller stores a successfully fetched result in this step.
SetStep ==
  \E r \in Reqs :
    /\ pc[r] = "await" /\ pc'[r] = "done"
    /\ ~ApiFailed(hist'[r].axios)
    /\ cache' = [present |-> TRUE, v |-> Own(r)', t |-> now + stdTTL]

\* C13: the entry for "crypto-list", read as present when has is true and
\* absent otherwise, becomes present only by a controller's set after a
\* successful fetch, changes while present only by such a set, and becomes
\* absent only by the clock passing its expiry (nothing deletes a live
\* entry); every successful miss, also one after an expiry, leaves it
\* present, so absence is never final.
C13_StateMachine ==
  [][ /\ (~has(cache, now) /\ has(cache', now')) => SetStep
      /\ (has(cache, now) /\ cache' # cache) => SetStep
      /\ (has(cache, now) /\ ~has(cache', now')) =>
           now' > now /\ cache' = cache /\ cache.t < now'
      /\ (\E r \in Reqs : pc[r] = "await" /\ pc'[r] = "done") =>
           SetStep /\ has(cache', now') ]_vars

C13_Witness ==
  \E r \in Reqs : \E q \in Reqs :
    /\ q < r /\ hist[q].sets = 1
    /\ hist[r].stale /\ hist[r].prevSetBy = q
    /\ hist[r].found = "absent" /\ pc[r] = "done"
    /\ lastSet.by = r /\ has(cache, now)

\* C14: a GET /crypto request whose handlers have run to their end, on a
\* hit, after a successful fetch or after a failed one, has received its
\* one response.
C14_OneResponse ==
  \A r \in Reqs :
    (route[r] = "/crypto" /\ Over(r)) => resp[r].sent

\* C15: a hit does not extend the TTL.  A has check that is true and a get
\* that returns the value leave the entry's value and expiry as they were
\* (a get that finds the entry expired only deletes it), so once more than
\* stdTTL has passed since the set that wrote the entry it is no longer
\* served, however many hits came in between.
C15_HitsKeepExpiry ==
  /\ [][\A r \in Reqs :
          /\ (pc[r] = "new" /\ pc'[r] = "get") => cache' = cache
          /\ (pc[r] = "get" /\ pc'[r] = "done") =>
               /\ lastSet' = lastSet
               /\ IF hist'[r].got # Undefined
                    THEN cache' = cache /\ SinceSet <= stdTTL
                    ELSE cache' = NoEntry /\ SinceSet > stdTTL]_vars
  /\ []((lastSet.by # 0 /\ SinceSet > stdTTL) =>
          ~has(cache, now) /\ get(cache, now) = Undefined)

C15_Witness ==
  \E r \in Reqs : \E q \in Reqs :
    /\ r # q
    /\ hist[r].hit /\ pc[r] = "done" /\ hist[r].got # Undefined
    /\ hist[q].hit /\ pc[q] = "done" /\ hist[q].got # Undefined
    /\ SinceSet > stdTTL
    /\ cache.present /\ ~has(cache, now)

\* The request was answered from the cache with a value.
Served(r) == hist[r].hit /\ pc[r] = "done" /\ hist[r].got # Undefined

\* C16 as claimed: every value served from the cache is the value of a set
\* that happened less than stdTTL before the request's has check.
C16_NoStaleFallback_Claimed ==
  \A r \in Reqs :
    Served(r) =>
      /\ hist[r].prevSetBy \in Reqs
      /\ hist[r].within
      /\ hist[r].got = Own(hist[r].prevSetBy)

\* C16: every value served from the cache is the value of the most recent
\* set, which happened no more than stdTTL before the request's has check
\* (at exactly stdTTL the entry is still served); a request whose has check
\* came later than that is not a hit, and when its fetch fails it is sent no
\* cached value, nor is any later request until a set has happened again.
C16_NoStaleFallback ==
  \A r \in Reqs :
    /\ Served(r) =>
         /\ hist[r].prevSetBy \in Reqs
         /\ ~hist[r].stale
         /\ hist[r].got = Own(hist[r].prevSetBy)
    /\ hist[r].stale => ~hist[r].hit
    /\ pc[r] = "rejected" => resp[r].body.type # "json"

C16_Witness ==
  \E r \in Reqs : \E q \in Reqs :
    /\ Served(r) /\ ~hist[r].within /\ ~hist[r].stale
    /\ Len(hist[r].got.items) = Amount
    /\ hist[q].stale /\ hist[q].prevSetBy = hist[r].prevSetBy
    /\ pc[q] = "rejected" /\ ~resp[q].sent

\* The upstream results that fetches of requests so far returned successfully.
Fetched ==
  {hist[r].axios.val.items : r \in {q \in Reqs : fetches[q] = 1 /\ pc[q] = "done"
                                                  /\ ~ApiFailed(hist[q].axios)}}

\* C17: whenever the entry is present its value is an array holding the first
\* min(25, |L|) records of some upstream result L that a fetch returned
\* successfully; it never holds more than 25 records, an untruncated longer
\* result, or an error value.
C17_CachedValue ==
  cache.present =>
    /\ cache.v.kind = "array"
    /\ Len(cache.v.items) <= Amount
    /\ \E L \in Fetched :
         /\ Len(cache.v.items) = Min(Amount, Len(L))
         /\ \A i \in 1..Len(cache.v.items) : cache.v.items[i] = L[i]
    /\ \A r \in Reqs : ApiFailed(hist[r].axios) => hist[r].sets = 0

C17_Witness ==
  \E r \in Reqs : \E q \in Reqs :
    /\ pc[r] = "done" /\ pc[q] = "done"
    /\ fetches[r] = 1 /\ fetches[q] = 1 /\ r \in hist[q].inflight
    /\ lastSet.by = r
    /\ Len(hist[r].axios.val.items) = Amount + MaxExtra
    /\ \E p \in Reqs : pc[p] = "rejected" /\ fetches[p] = 1
    /\ cache.present
    /\ Len(cache.v.items) = Amount
    /\ cache.v.items = SubSeq(hist[r].axios.val.items, 1, Amount)

====
